---- MODULE Spec2Model ----
(***************************************************************************)
(* Model of server.js: an Express application with a JSON body parser, a   *)
(* CORS middleware, a shared Playwright browser launched once at startup,  *)
(* the pure helper getUrls, the async route handler POST /fetch and the    *)
(* route GET /.                                                            *)
(*                                                                         *)
(* JavaScript runs each handler to its next await without interruption, so *)
(* one action is the code between two awaits: the arrival of a request     *)
(* runs the middleware chain and the handler up to its first await, and    *)
(* each later action is the settling (resolve or reject) of the awaited    *)
(* Playwright call followed by the code up to the next await.              *)
(***************************************************************************)
EXTENDS Naturals, Sequences, FiniteSets

(* Number of handler invocations (requests) of one run; all of them may be *)
(* in flight at once, or one after the other.                              *)
MaxRequests == 2

Handlers == 1 .. MaxRequests

VARIABLES
  browser,     \* module-level `let browser`: Undefined until launch resolves
  launchPc,    \* the launch IIFE: "launching" or "settled"
  contexts,    \* browser side: the set of open browsing contexts
  browserPages, \* browser side: page id -> [context, open]
  pc,          \* per invocation: the await the handler is suspended at
  req,         \* per invocation: the request
  urls,        \* per invocation: local `urls`
  context,     \* per invocation: local `context` (0: not assigned)
  page,        \* per invocation: local `page` (0: null)
  tokens,      \* per invocation: local `tokens`
  resultHtml,  \* per invocation: local `resultHtml`
  res,         \* per invocation: the response object
  posted,      \* per invocation: the in-page POST its evaluate issued
  calls        \* per invocation: the calls the handler made, in order

vars == <<browser, launchPc, contexts, browserPages, pc, req, urls, context, page,
          tokens, resultHtml, res, posted, calls>>

----------------------------------------------------------------------------
(* JavaScript values *)

Undefined == "<undefined>"

(* !v for the string-or-undefined values of a request body *)
Falsy(v) == v \in {Undefined, ""}

(* String(v), as done by `input.value = value` *)
ToString(v) == IF v = Undefined THEN "undefined" ELSE v

(* The value of an <input> read by page.evaluate: null when the element is *)
(* missing, else its value, which the remote site issued to one page.      *)
NullTok == [field |-> "none", issuedTo |-> 0, value |-> "null"]
Tok(name, p) == [field |-> name, issuedTo |-> p, value |-> "nonempty"]
EmptyTok(name, p) == [field |-> name, issuedTo |-> p, value |-> ""]

TokFalsy(t) == t.value \in {"null", ""}

----------------------------------------------------------------------------
(* getUrls *)

base == "http://results.nu.ac.bd"

(* Own properties of the object literal `pages` *)
pages ==
  [k \in {"1", "2", "3", "4", "consolidated"} |->
     CASE k = "1" -> "first_year_result"
       [] k = "2" -> "second_year_result"
       [] k = "3" -> "third_year_result"
       [] k = "4" -> "fourth_year_result"
       [] k = "consolidated" -> "final_year_result"]

(* Properties an object literal inherits from Object.prototype, with the   *)
(* text a template literal makes of each value.                            *)
ObjectPrototype ==
  [k \in {"constructor", "toString", "valueOf", "hasOwnProperty", "__proto__"} |->
     CASE k = "constructor" -> "function Object() { [native code] }"
       [] k = "toString" -> "function toString() { [native code] }"
       [] k = "valueOf" -> "function valueOf() { [native code] }"
       [] k = "hasOwnProperty" -> "function hasOwnProperty() { [native code] }"
       [] k = "__proto__" -> "[object Object]"]

(* obj[key]: own property, else the prototype chain, else undefined *)
PropertyGet(obj, key) ==
  IF key \in DOMAIN obj THEN obj[key]
  ELSE IF key \in DOMAIN ObjectPrototype THEN ObjectPrototype[key]
  ELSE Undefined

NotFound == [form |-> <<>>, action |-> <<>>]

getUrls(exam, year) ==
  IF exam = "honours"
  THEN LET pageName == PropertyGet(pages, year)
       IN IF Falsy(pageName) THEN NotFound
          ELSE [form |-> <<base, "/honours/", pageName, ".php">>,
                action |-> <<base, "/honours/", pageName, "_show.php">>]
  ELSE NotFound

----------------------------------------------------------------------------
(* Requests *)

Body(exam, year, roll, reg, examYear) ==
  [exam |-> exam, year |-> year, roll |-> roll, reg |-> reg, examYear |-> examYear]

EmptyBody == Body(Undefined, Undefined, Undefined, Undefined, Undefined)

Request(method, path, kind, body) ==
  [method |-> method, path |-> path, kind |-> kind, body |-> body]

NoRequest == Request("none", "none", "none", EmptyBody)

FieldNames == {"exam", "year", "roll", "reg", "examYear"}

(* Request bodies of the full input space *)
ExamValues == {Undefined, "", "honours", "masters"}
YearValues == {Undefined, "", "1", "2", "3", "4", "consolidated", "5",
               "constructor", "toString"}
RollValues == {Undefined, "", "101"}
RegValues == {Undefined, "R7"}
ExamYearValues == {Undefined, "2020"}

AllBodies ==
  {Body(e, y, r, g, x) : e \in ExamValues, y \in YearValues, r \in RollValues,
                         g \in RegValues, x \in ExamYearValues}

SampleBody == Body("honours", "1", "101", "R7", "2020")

(* kind: "json" a JSON object body, "none" no body, "malformed" a body     *)
(* sent as application/json that does not parse.                           *)
AllRequests ==
  {Request("POST", "/fetch", "json", b) : b \in AllBodies}
  \cup {Request("POST", "/fetch", k, EmptyBody) : k \in {"none", "malformed"}}
  \cup {Request("GET", p, "none", EmptyBody) : p \in {"/", "/fetch"}}
  \cup {Request("OPTIONS", p, "none", EmptyBody) : p \in {"/", "/fetch", "/other"}}
  \cup {Request("OPTIONS", p, "json", SampleBody) : p \in {"/", "/fetch", "/other"}}
  \cup {Request("OPTIONS", p, "malformed", EmptyBody) : p \in {"/", "/fetch", "/other"}}

(* The requests of the concurrent runs: two callers with different rolls,  *)
(* and one caller whose body fails validation.                             *)
FetchRequests ==
  {Request("POST", "/fetch", "json", Body("honours", "1", r, "R7", "2020")) :
     r \in {"101", "102"}}
  \cup {Request("POST", "/fetch", "json", Body("honours", "5", "101", "R7", "2020"))}

----------------------------------------------------------------------------
(* The response object *)

NoFields ==
  [roll_number |-> "", reg_no |-> "", exam_year |-> "",
   csrf_token |-> NullTok, letters_code |-> NullTok]

NoPost == [page |-> 0, url |-> <<>>, fields |-> NoFields]

Content(kind, text, post) == [kind |-> kind, text |-> text, post |-> post]

NoContent == Content("none", "", NoPost)
Text(t) == Content("text", t, NoPost)
ProxyError(msg) == Content("proxyError", msg, NoPost)
InfoPage == Content("text", "NU Result Playwright Proxy", NoPost)

CorsHeaders ==
  {"Access-Control-Allow-Origin: *",
   "Access-Control-Allow-Methods: POST, GET, OPTIONS",
   "Access-Control-Allow-Headers: Content-Type"}

HtmlType == "Content-Type: text/html"

(* status: res.statusCode; headers: the headers set so far; body and sent: *)
(* the response written to the client; sendCalls: calls of res.send or     *)
(* res.end; threw: whether the last of them threw; resend: whether one was *)
(* made after the response had been written.                               *)
NewResponse ==
  [status |-> 200, headers |-> {}, body |-> NoContent, sent |-> FALSE,
   sendCalls |-> 0, threw |-> FALSE, resend |-> FALSE]

SetHeaders(r, hs) == [r EXCEPT !.headers = @ \cup hs]

(* res.status(status).send(body) with the given outcome of the write. A    *)
(* send after the response was written throws (headers already sent).      *)
Send(r, status, body, outcome) ==
  IF r.sent
  THEN [r EXCEPT !.sendCalls = @ + 1, !.threw = TRUE, !.resend = TRUE]
  ELSE IF outcome = "ok"
  THEN [r EXCEPT !.status = status, !.headers = @ \cup {HtmlType},
                 !.body = body, !.sent = TRUE, !.sendCalls = @ + 1,
                 !.threw = FALSE]
  ELSE [r EXCEPT !.status = status, !.sendCalls = @ + 1, !.threw = TRUE]

(* res.status(200).end() *)
End(r, status) ==
  [r EXCEPT !.status = status, !.sent = TRUE, !.sendCalls = @ + 1]

----------------------------------------------------------------------------
(* The browser side *)

(* `tokens` before it is assigned *)
NoTokens ==
  [csrf_token |-> [field |-> "unset", issuedTo |-> 0, value |-> "undefined"],
   letters_code |-> [field |-> "unset", issuedTo |-> 0, value |-> "undefined"]]

(* The documents the remote form page may serve to page p, as the first    *)
(* page.evaluate finds them: both <input>s with a value, one of them       *)
(* missing, or one with an empty value.                                    *)
Docs(p) ==
  {[csrf_token |-> Tok("csrf_token", p), letters_code |-> Tok("letters_code", p)],
   [csrf_token |-> NullTok, letters_code |-> Tok("letters_code", p)],
   [csrf_token |-> Tok("csrf_token", p), letters_code |-> NullTok],
   [csrf_token |-> Tok("csrf_token", p), letters_code |-> EmptyTok("letters_code", p)]}

(* What the remote action page may answer to a POST *)
RemoteVariants == {"result", "no result found"}

IsOpen(p) == p \in DOMAIN browserPages /\ browserPages[p].open

OpenPage(ps, p, c) ==
  [q \in DOMAIN ps \cup {p} |->
     IF q = p THEN [context |-> c, open |-> TRUE] ELSE ps[q]]

(* page.close(): closing a closed page changes nothing *)
ClosePage(ps, p) ==
  [q \in DOMAIN ps |->
     IF q = p THEN [ps[q] EXCEPT !.open = FALSE] ELSE ps[q]]

(* An awaited Playwright call on page p either resolves or rejects; on a   *)
(* closed page it rejects.                                                 *)
Outcomes(p) == IF IsOpen(p) THEN {"resolve", "reject"} ELSE {"reject"}

----------------------------------------------------------------------------
(* The handler of POST /fetch *)

Call(op, p) == [op |-> op, page |-> p]

(* `if (!exam || !year || !reg || !examYear)` *)
MissingFields(b) ==
  Falsy(b.exam) \/ Falsy(b.year) \/ Falsy(b.reg) \/ Falsy(b.examYear)

(* The handler without its browser check *)
BrowserReadyUnchecked(b) == TRUE

(* `if (!browser)` negated *)
BrowserReady(b) == b # Undefined

(* The token check with && in place of || *)
TokensMissingBoth(t) == TokFalsy(t.csrf_token) /\ TokFalsy(t.letters_code)

(* `if (!tokens.csrf_token || !tokens.letters_code)` *)
TokensMissing(t) == TokFalsy(t.csrf_token) \/ TokFalsy(t.letters_code)

(* The `inputs` object with roll and reg exchanged *)
FormFieldsSwapped(roll, reg, examYear, t) ==
  [roll_number |-> ToString(reg), reg_no |-> ToString(roll),
   exam_year |-> ToString(examYear),
   csrf_token |-> t.csrf_token, letters_code |-> t.letters_code]

(* The `inputs` object of the in-page form *)
FormFields(roll, reg, examYear, t) ==
  [roll_number |-> ToString(roll), reg_no |-> ToString(reg),
   exam_year |-> ToString(examYear),
   csrf_token |-> t.csrf_token, letters_code |-> t.letters_code]

(* The finally block, after the response r and the calls evs of this step: *)
(* `if (page) await page.close()` with pg the value of `page`.             *)
Finally(h, r, evs, pg) ==
  /\ res' = [res EXCEPT ![h] = r]
  /\ calls' = [calls EXCEPT ![h] =
                 @ \o evs \o (IF pg # 0 THEN <<Call("close", pg)>> ELSE <<>>)]
  /\ pc' = [pc EXCEPT ![h] = IF pg # 0 THEN "closeInFinally" ELSE "done"]

(* A catch block that only logs the error *)
CatchLogOnly(r, msg, outcome) == r

(* What the catch block does to the response *)
CatchSend(r, msg, outcome) == Send(r, 500, ProxyError(msg), outcome)

(* The catch block, then finally *)
Catch(h, r, msg, so, evs, pg) ==
  \E o \in so :
    Finally(h, CatchSend(r, msg, o), evs \o <<Call("send", 0)>>, pg)

(* A res.send inside the try block followed by leaving it (a return, or    *)
(* the end of the block): finally, or catch and finally when it throws.    *)
Respond(h, r, status, body, so, evs, pg) ==
  \E o \in so :
    LET r1 == Send(r, status, body, o)
    IN  IF r1.threw
        THEN Catch(h, r1, "send failed", so, evs \o <<Call("send", 0)>>, pg)
        ELSE Finally(h, r1, evs \o <<Call("send", 0)>>, pg)

(* The handler from its entry to the first await, parsed being req.body    *)
FetchStart(h, parsed, r, so) ==
  LET b == parsed.body
      valid == parsed.kind = "object" /\ ~MissingFields(b)
      u == IF valid THEN getUrls(b.exam, b.year) ELSE NotFound
  IN  /\ urls' = [urls EXCEPT ![h] = u]
      /\ IF parsed.kind = "undefined"
         THEN Catch(h, r, "Cannot destructure req.body", so, <<>>, 0)
         ELSE IF MissingFields(b)
         THEN Respond(h, r, 400, Text("Missing required fields"), so, <<>>, 0)
         ELSE IF u = NotFound
         THEN Respond(h, r, 400, Text("Invalid exam or year"), so,
                      <<Call("getUrls", 0)>>, 0)
         ELSE IF ~BrowserReady(browser)
         THEN Respond(h, r, 500, Text("Browser not ready"), so,
                      <<Call("getUrls", 0)>>, 0)
         ELSE /\ res' = [res EXCEPT ![h] = r]
              /\ calls' = [calls EXCEPT ![h] =
                             @ \o <<Call("getUrls", 0), Call("newContext", 0)>>]
              /\ pc' = [pc EXCEPT ![h] = "newContext"]

----------------------------------------------------------------------------
(* The middleware chain *)

(* express.json(): req.body of a request. A request without a body gets {} *)
(* (Express 4) or is left undefined (Express 5).                           *)
Parsed(kind, body) == [kind |-> kind, body |-> body]

ParsedBodies(r) ==
  CASE r.kind = "json" -> {Parsed("object", r.body)}
    [] r.kind = "none" -> {Parsed("object", EmptyBody), Parsed("undefined", EmptyBody)}
    [] r.kind = "malformed" -> {Parsed("error", EmptyBody)}

(* A request arrives for invocation h: express.json, the CORS middleware,  *)
(* then the route, run to its first await.                                 *)
Receive(h, reqs, so) ==
  /\ pc[h] = "idle"
  /\ \E r \in reqs : \E parsed \in ParsedBodies(r) :
       /\ req' = [req EXCEPT ![h] = r]
       /\ IF parsed.kind = "error"
          THEN \* next(err): the default error handler answers, the CORS
               \* middleware is skipped
               /\ res' = [res EXCEPT ![h] = Send(NewResponse, 400, Text("Bad Request"), "ok")]
               /\ pc' = [pc EXCEPT ![h] = "done"]
               /\ UNCHANGED <<calls, urls>>
          ELSE LET r0 == SetHeaders(NewResponse, CorsHeaders)
               IN  IF r.method = "OPTIONS"
                   THEN /\ res' = [res EXCEPT ![h] = End(r0, 200)]
                        /\ pc' = [pc EXCEPT ![h] = "done"]
                        /\ UNCHANGED <<calls, urls>>
                   ELSE IF r.method = "POST" /\ r.path = "/fetch"
                   THEN FetchStart(h, parsed, r0, so)
                   ELSE IF r.method = "GET" /\ r.path = "/"
                   THEN /\ res' = [res EXCEPT ![h] = Send(r0, 200, InfoPage, "ok")]
                        /\ pc' = [pc EXCEPT ![h] = "done"]
                        /\ UNCHANGED <<calls, urls>>
                   ELSE \* no route: the default 404
                        /\ res' = [res EXCEPT ![h] = Send(r0, 404, Text("Not Found"), "ok")]
                        /\ pc' = [pc EXCEPT ![h] = "done"]
                        /\ UNCHANGED <<calls, urls>>
  /\ UNCHANGED <<browser, launchPc, contexts, browserPages, context, page, tokens,
                 resultHtml, posted>>

----------------------------------------------------------------------------
(* The awaits of the handler *)

(* `const context = await browser.newContext()` settles; on success        *)
(* `context.newPage()` is called.                                          *)
NewContextSettles(h, so) ==
  /\ pc[h] = "newContext"
  /\ \E out \in {"resolve", "reject"} :
       IF out = "resolve"
       THEN /\ context' = [context EXCEPT ![h] = h]
            /\ contexts' = contexts \cup {h}
            /\ pc' = [pc EXCEPT ![h] = "newPage"]
            /\ calls' = [calls EXCEPT ![h] = Append(@, Call("newPage", 0))]
            /\ UNCHANGED res
       ELSE /\ Catch(h, res[h], "newContext failed", so, <<>>, 0)
            /\ UNCHANGED <<context, contexts>>
  /\ UNCHANGED <<browser, launchPc, browserPages, req, urls, page, tokens, resultHtml,
                 posted>>

(* The same step with `page` declared at module level, shared by all      *)
(* invocations, instead of inside the handler.                             *)
NewPageSettlesSharedPage(h, so) ==
  /\ pc[h] = "newPage"
  /\ \E out \in {"resolve", "reject"} :
       IF out = "resolve"
       THEN /\ page' = [g \in Handlers |-> h]
            /\ browserPages' = OpenPage(browserPages, h, context[h])
            /\ pc' = [pc EXCEPT ![h] = "setUserAgent"]
            /\ calls' = [calls EXCEPT ![h] = Append(@, Call("setUserAgent", h))]
            /\ UNCHANGED res
       ELSE /\ Catch(h, res[h], "newPage failed", so, <<>>, 0)
            /\ UNCHANGED <<page, browserPages>>
  /\ UNCHANGED <<browser, launchPc, contexts, req, urls, context, tokens,
                 resultHtml, posted>>

(* `page = await context.newPage()` settles; on success                    *)
(* `page.setUserAgent(...)` is called.                                     *)
NewPageSettles(h, so) ==
  /\ pc[h] = "newPage"
  /\ \E out \in {"resolve", "reject"} :
       IF out = "resolve"
       THEN /\ page' = [page EXCEPT ![h] = h]
            /\ browserPages' = OpenPage(browserPages, h, context[h])
            /\ pc' = [pc EXCEPT ![h] = "setUserAgent"]
            /\ calls' = [calls EXCEPT ![h] = Append(@, Call("setUserAgent", h))]
            /\ UNCHANGED res
       ELSE /\ Catch(h, res[h], "newPage failed", so, <<>>, 0)
            /\ UNCHANGED <<page, browserPages>>
  /\ UNCHANGED <<browser, launchPc, contexts, req, urls, context, tokens,
                 resultHtml, posted>>

(* `await page.setUserAgent(...)` settles (it throws where the page object *)
(* has no such method); on success `page.goto(urls.form)` is called.       *)
SetUserAgentSettles(h, so) ==
  /\ pc[h] = "setUserAgent"
  /\ \E out \in Outcomes(page[h]) :
       IF out = "resolve"
       THEN /\ pc' = [pc EXCEPT ![h] = "goto"]
            /\ calls' = [calls EXCEPT ![h] = Append(@, Call("goto", page[h]))]
            /\ UNCHANGED res
       ELSE Catch(h, res[h], "setUserAgent failed", so, <<>>, page[h])
  /\ UNCHANGED <<browser, launchPc, contexts, browserPages, req, urls, context, page,
                 tokens, resultHtml, posted>>

(* `await page.goto(urls.form, ...)` settles: the form page is loaded, or  *)
(* the navigation fails or times out; then the first page.evaluate.        *)
GotoSettles(h, so) ==
  /\ pc[h] = "goto"
  /\ \E out \in Outcomes(page[h]) :
       IF out = "resolve"
       THEN /\ pc' = [pc EXCEPT ![h] = "extract"]
            /\ calls' = [calls EXCEPT ![h] = Append(@, Call("extract", page[h]))]
            /\ UNCHANGED res
       ELSE Catch(h, res[h], "goto failed", so, <<>>, page[h])
  /\ UNCHANGED <<browser, launchPc, contexts, browserPages, req, urls, context, page,
                 tokens, resultHtml, posted>>

(* `const tokens = await page.evaluate(...)` settles; with a token missing *)
(* page.close() is called, else the second page.evaluate.                  *)
ExtractSettles(h, so) ==
  /\ pc[h] = "extract"
  /\ \E out \in Outcomes(page[h]) : \E doc \in Docs(page[h]) :
       IF out = "resolve"
       THEN LET t == [csrf_token |-> doc.csrf_token, letters_code |-> doc.letters_code]
            IN  /\ tokens' = [tokens EXCEPT ![h] = t]
                /\ IF TokensMissing(t)
                   THEN /\ pc' = [pc EXCEPT ![h] = "closeOnTokenFailure"]
                        /\ calls' = [calls EXCEPT ![h] = Append(@, Call("close", page[h]))]
                   ELSE /\ pc' = [pc EXCEPT ![h] = "submit"]
                        /\ calls' = [calls EXCEPT ![h] = Append(@, Call("submit", page[h]))]
                /\ UNCHANGED res
       ELSE /\ Catch(h, res[h], "evaluate failed", so, <<>>, page[h])
            /\ UNCHANGED tokens
  /\ UNCHANGED <<browser, launchPc, contexts, browserPages, req, urls, context, page,
                 resultHtml, posted>>

(* The first `await page.close()` (token failure branch) settles; on       *)
(* success the 500 is sent and the handler returns.                        *)
CloseOnTokenFailureSettles(h, so) ==
  /\ pc[h] = "closeOnTokenFailure"
  /\ \E out \in {"resolve", "reject"} :
       IF out = "resolve"
       THEN /\ browserPages' = ClosePage(browserPages, page[h])
            /\ Respond(h, res[h], 500, Text("Failed to extract security tokens"),
                       so, <<>>, page[h])
       ELSE /\ Catch(h, res[h], "close failed", so, <<>>, page[h])
            /\ UNCHANGED browserPages
  /\ UNCHANGED <<browser, launchPc, contexts, req, urls, context, page, tokens,
                 resultHtml, posted>>

(* `const resultHtml = await page.evaluate(...)` settles: the page posted  *)
(* the form and returned the response text, or the evaluation failed       *)
(* before or after the POST left the page. On success the result is sent.  *)
SubmitSettles(h, so) ==
  /\ pc[h] = "submit"
  /\ \E out \in Outcomes(page[h]) \cup {"reject"} : \E v \in RemoteVariants :
       LET b == req[h].body
           post == [page |-> page[h], url |-> urls[h].action,
                    fields |-> FormFields(b.roll, b.reg, b.examYear, tokens[h])]
           html == Content("remote", v, post)
       IN  IF out = "resolve"
           THEN /\ posted' = [posted EXCEPT ![h] = post]
                /\ resultHtml' = [resultHtml EXCEPT ![h] = html]
                /\ Respond(h, SetHeaders(res[h], {HtmlType}), res[h].status, html,
                           so, <<Call("post", page[h])>>, page[h])
           ELSE /\ \/ /\ IsOpen(page[h])
                      /\ posted' = [posted EXCEPT ![h] = post]
                      /\ Catch(h, res[h], "evaluate failed", so,
                               <<Call("post", page[h])>>, page[h])
                   \/ /\ UNCHANGED posted
                      /\ Catch(h, res[h], "evaluate failed", so, <<>>, page[h])
                /\ UNCHANGED resultHtml
  /\ UNCHANGED <<browser, launchPc, contexts, browserPages, req, urls, context, page,
                 tokens>>

(* The `await page.close()` of the finally block settles; the handler ends *)
CloseInFinallySettles(h) ==
  /\ pc[h] = "closeInFinally"
  /\ \E out \in {"resolve", "reject"} :
       browserPages' = IF out = "resolve" THEN ClosePage(browserPages, page[h]) ELSE browserPages
  /\ pc' = [pc EXCEPT ![h] = "done"]
  /\ UNCHANGED <<browser, launchPc, contexts, req, urls, context, page, tokens,
                 resultHtml, res, posted, calls>>

----------------------------------------------------------------------------
(* The browser launch at startup *)

LaunchResolves ==
  /\ launchPc = "launching"
  /\ browser' = "Browser"
  /\ launchPc' = "settled"
  /\ UNCHANGED <<contexts, browserPages, pc, req, urls, context, page, tokens,
                 resultHtml, res, posted, calls>>

LaunchRejects ==
  /\ launchPc = "launching"
  /\ launchPc' = "settled"
  /\ UNCHANGED <<browser, contexts, browserPages, pc, req, urls, context, page, tokens,
                 resultHtml, res, posted, calls>>

----------------------------------------------------------------------------
(* Specifications *)

Init ==
  /\ browser = Undefined
  /\ launchPc = "launching"
  /\ contexts = {}
  /\ browserPages = [p \in {} |-> [context |-> 0, open |-> FALSE]]
  /\ pc = [h \in Handlers |-> "idle"]
  /\ req = [h \in Handlers |-> NoRequest]
  /\ urls = [h \in Handlers |-> NotFound]
  /\ context = [h \in Handlers |-> 0]
  /\ page = [h \in Handlers |-> 0]
  /\ tokens = [h \in Handlers |-> NoTokens]
  /\ resultHtml = [h \in Handlers |-> NoContent]
  /\ res = [h \in Handlers |-> NewResponse]
  /\ posted = [h \in Handlers |-> NoPost]
  /\ calls = [h \in Handlers |-> <<>>]

Handle(h, reqs, so) ==
  \/ Receive(h, reqs, so)
  \/ NewContextSettles(h, so)
  \/ NewPageSettles(h, so)
  \/ SetUserAgentSettles(h, so)
  \/ GotoSettles(h, so)
  \/ ExtractSettles(h, so)
  \/ CloseOnTokenFailureSettles(h, so)
  \/ SubmitSettles(h, so)
  \/ CloseInFinallySettles(h)

(* Concurrent /fetch requests; every res.send succeeds *)
Next ==
  \/ LaunchResolves
  \/ LaunchRejects
  \/ \E h \in Handlers : Handle(h, FetchRequests, {"ok"})

Spec == Init /\ [][Next]_vars

(* One request drawn from the full input space *)
NextBodies ==
  \/ LaunchResolves
  \/ LaunchRejects
  \/ Handle(1, AllRequests, {"ok"})

SpecBodies == Init /\ [][NextBodies]_vars

(* One /fetch request whose res.send calls may throw *)
NextSendFail ==
  \/ LaunchResolves
  \/ LaunchRejects
  \/ Handle(1, FetchRequests, {"ok", "throw"})

SpecSendFail == Init /\ [][NextSendFail]_vars

----------------------------------------------------------------------------
(* Properties *)

IsFetch(r) == r.method = "POST" /\ r.path = "/fetch"

Ops(h) == {calls[h][i].op : i \in DOMAIN calls[h]}

CloseCalls(h) == Cardinality({i \in DOMAIN calls[h] : calls[h][i].op = "close"})

OpenPages == {p \in DOMAIN browserPages : browserPages[p].open}

TableKeys == {"1", "2", "3", "4", "consolidated"}

(* C1: a POST /fetch whose JSON body lacks, or has empty, any one of exam,  *)
(* year, roll, reg, examYear is answered 400 and never creates a context   *)
(* or a page and never navigates.                                          *)
C1_MissingFieldIs400 ==
  \A h \in Handlers :
    (/\ pc[h] # "idle"
     /\ IsFetch(req[h])
     /\ req[h].kind = "json"
     /\ \E f \in FieldNames : req[h].body[f] \in {Undefined, ""})
    => /\ res[h].sent
       /\ res[h].status = 400
       /\ context[h] = 0
       /\ page[h] = 0
       /\ Ops(h) \cap {"newContext", "newPage", "goto"} = {}

(* C2: getUrls(exam, year) returns a URL pair exactly when exam is         *)
(* "honours" and year is one of the five keys of the table, and null for   *)
(* every other pair, names of inherited properties included.               *)
C2_UrlsExactlyForTableKeys ==
  \A h \in Handlers :
    "getUrls" \in Ops(h)
    => ((urls[h] # NotFound)
        <=> (req[h].body.exam = "honours" /\ req[h].body.year \in TableKeys))

(* C3: the context and the page a /fetch request acquired are released by  *)
(* the time its handler finishes; with no handler running, no context and  *)
(* no page is open.                                                        *)
C3_SessionsReleased ==
  /\ \A h \in Handlers :
       pc[h] = "done" => (context[h] \notin contexts /\ page[h] \notin OpenPages)
  /\ (\A h \in Handlers : pc[h] \in {"idle", "done"})
       => (contexts = {} /\ OpenPages = {})

(* C4: when the form page yields both tokens and the in-page POST returns  *)
(* body B, the handler answers 200, Content-Type text/html, body B, and    *)
(* the POST carried exactly roll_number, reg_no, exam_year, csrf_token and *)
(* letters_code with the request's roll, reg, examYear and the two tokens  *)
(* extracted from its page, sent to the action URL of its year.            *)
C4_SuccessRelaysBody ==
  \A h \in Handlers :
    resultHtml[h] # NoContent
    => /\ res[h].sent
       /\ res[h].status = 200
       /\ HtmlType \in res[h].headers
       /\ res[h].body = resultHtml[h]
       /\ resultHtml[h].kind = "remote"
       /\ resultHtml[h].post = posted[h]
       /\ req[h].body.year = "1"
            => posted[h].url = <<"http://results.nu.ac.bd", "/honours/",
                                 "first_year_result", "_show.php">>
       /\ DOMAIN posted[h].fields =
            {"roll_number", "reg_no", "exam_year", "csrf_token", "letters_code"}
       /\ posted[h].fields.roll_number = req[h].body.roll
       /\ posted[h].fields.reg_no = req[h].body.reg
       /\ posted[h].fields.exam_year = req[h].body.examYear
       /\ posted[h].fields.csrf_token = tokens[h].csrf_token
       /\ posted[h].fields.letters_code = tokens[h].letters_code
       /\ tokens[h].csrf_token.value = "nonempty"
       /\ tokens[h].letters_code.value = "nonempty"

(* A finished request answered 200 with the remote result for roll 102 *)
C4_Witness ==
  \E h \in Handlers :
    /\ pc[h] = "done"
    /\ res[h].sent
    /\ res[h].status = 200
    /\ res[h].body.kind = "remote"
    /\ res[h].body.post.fields.roll_number = "102"

(* C5: concurrent handlers use only their own context, page, tokens and    *)
(* request fields: every page a handler calls, closes or posts from is the *)
(* page it created, and the result it sends is the answer to the POST that *)
(* carried its own roll, reg, examYear and the tokens issued to its page.  *)
C5_Isolation ==
  \A h \in Handlers :
    /\ context[h] \in {0, h}
    /\ page[h] \in {0, h}
    /\ \A i \in DOMAIN calls[h] : calls[h][i].page \in {0, h}
    /\ h \in DOMAIN browserPages => browserPages[h].context = h
    /\ tokens[h].csrf_token.issuedTo \in {0, h}
    /\ tokens[h].letters_code.issuedTo \in {0, h}
    /\ posted[h].page \in {0, h}
    /\ res[h].body.kind = "remote"
         => /\ res[h].body.post.page = h
            /\ res[h].body.post.fields.roll_number = req[h].body.roll
            /\ res[h].body.post.fields.reg_no = req[h].body.reg
            /\ res[h].body.post.fields.exam_year = req[h].body.examYear
            /\ res[h].body.post.fields.csrf_token.issuedTo = h
            /\ res[h].body.post.fields.letters_code.issuedTo = h

(* Two handlers with different rolls, both with their result sent and both *)
(* pages still open: the two requests overlapped.                          *)
C5_Witness ==
  \E g, h \in Handlers :
    /\ g # h
    /\ req[g].body.roll # req[h].body.roll
    /\ pc[g] = "closeInFinally" /\ pc[h] = "closeInFinally"
    /\ res[g].body.kind = "remote" /\ res[h].body.kind = "remote"
    /\ {g, h} \subseteq OpenPages

(* C6: every OPTIONS request is answered 200 with no body and the three    *)
(* CORS headers without reaching a route handler, and every response the   *)
(* server sends carries the three CORS headers.                            *)
C6_OptionsAndCorsEverywhere ==
  \A h \in Handlers :
    /\ res[h].sent => CorsHeaders \subseteq res[h].headers
    /\ (pc[h] # "idle" /\ req[h].method = "OPTIONS")
         => /\ res[h].sent
            /\ res[h].status = 200
            /\ res[h].body = NoContent
            /\ calls[h] = <<>>

(* C7 as stated: while the browser handle is unavailable every POST /fetch *)
(* is answered 500 without a context or a navigation, and GET / is         *)
(* answered 200.                                                           *)
C7_UnavailableAlways500 ==
  \A h \in Handlers :
    (browser = Undefined /\ pc[h] # "idle")
    => /\ IsFetch(req[h])
            => /\ res[h].sent
               /\ res[h].status = 500
               /\ context[h] = 0
               /\ Ops(h) \cap {"newContext", "newPage", "goto"} = {}
       /\ (req[h].method = "GET" /\ req[h].path = "/")
            => (res[h].sent /\ res[h].status = 200)

(* C7 amended: while the browser handle is unavailable every POST /fetch   *)
(* is answered at once with an error, without a context, a page or a       *)
(* navigation: 400 when the body does not parse, when exam, year, reg or   *)
(* examYear is missing or empty, or when getUrls has no URL pair for exam  *)
(* and year; 500 otherwise (400 or 500 for a request without a body); and  *)
(* GET / is answered 200.                                                  *)
C7_UnavailableRejects ==
  \A h \in Handlers :
    (browser = Undefined /\ pc[h] # "idle")
    => /\ IsFetch(req[h])
            => /\ pc[h] = "done"
               /\ res[h].sent
               /\ context[h] = 0
               /\ page[h] = 0
               /\ contexts = {}
               /\ Ops(h) \cap {"newContext", "newPage", "goto"} = {}
               /\ req[h].kind = "malformed" => res[h].status = 400
               /\ req[h].kind = "none" => res[h].status \in {400, 500}
               /\ req[h].kind = "json"
                    => LET b == req[h].body
                           rejected ==
                             \/ \E f \in {"exam", "year", "reg", "examYear"} :
                                  b[f] \in {Undefined, ""}
                             \/ b.exam # "honours"
                             \/ b.year \notin TableKeys \cup DOMAIN ObjectPrototype
                       IN  res[h].status = IF rejected THEN 400 ELSE 500
       /\ (req[h].method = "GET" /\ req[h].path = "/")
            => (res[h].sent /\ res[h].status = 200 /\ res[h].body = InfoPage)

(* A valid request answered 500 "Browser not ready" after the launch failed *)
C7_Witness ==
  \E h \in Handlers :
    /\ browser = Undefined
    /\ launchPc = "settled"
    /\ IsFetch(req[h])
    /\ req[h].body.roll = "101"
    /\ pc[h] = "done"
    /\ res[h].sent
    /\ res[h].status = 500
    /\ res[h].body = Text("Browser not ready")

StepRank(op) ==
  CASE op = "getUrls" -> 1
    [] op = "goto" -> 2
    [] op = "extract" -> 3
    [] op = "post" -> 4
    [] op = "send" -> 5
    [] OTHER -> 0

IsStep(c) == StepRank(c.op) > 0

TokenAbsent(t) == t.value \in {"null", ""}

(* C8: within one request resolve, navigate, extract, submit and respond   *)
(* happen in this order; the POST is issued only after both tokens were    *)
(* extracted from the request's own page; and when either token is absent  *)
(* the handler answers 500 and never issues the POST.                      *)
C8_OrderAndTokensBeforePost ==
  \A h \in Handlers :
    /\ LET steps == SelectSeq(calls[h], IsStep)
       IN  \A i \in 1 .. Len(steps) - 1 :
             StepRank(steps[i].op) < StepRank(steps[i + 1].op)
    /\ ("post" \in Ops(h) \/ posted[h] # NoPost)
         => /\ tokens[h].csrf_token.value = "nonempty"
            /\ tokens[h].letters_code.value = "nonempty"
            /\ tokens[h].csrf_token.issuedTo = posted[h].page
            /\ tokens[h].letters_code.issuedTo = posted[h].page
            /\ posted[h].fields.csrf_token = tokens[h].csrf_token
            /\ posted[h].fields.letters_code = tokens[h].letters_code
            /\ {"getUrls", "goto", "extract"} \subseteq Ops(h)
    /\ (tokens[h] # NoTokens
        /\ (TokenAbsent(tokens[h].csrf_token) \/ TokenAbsent(tokens[h].letters_code)))
         => /\ posted[h] = NoPost
            /\ "post" \notin Ops(h)
            /\ pc[h] # "submit"
            /\ pc[h] \in {"closeInFinally", "done"}
                 => (res[h].sent /\ res[h].status = 500)

(* A finished request whose form page had an empty letters_code: 500, no   *)
(* POST                                                                    *)
C8_Witness ==
  \E h \in Handlers :
    /\ pc[h] = "done"
    /\ tokens[h].csrf_token.value = "nonempty"
    /\ tokens[h].letters_code.value = ""
    /\ res[h].sent
    /\ res[h].status = 500
    /\ res[h].body = Text("Failed to extract security tokens")

(* C9 as stated: every /fetch request sends exactly one response on every  *)
(* path, also when page.close() or res.send() fails.                       *)
C9_ExactlyOneResponse ==
  \A h \in Handlers :
    IsFetch(req[h])
    => /\ ~res[h].resend
       /\ pc[h] = "done" => res[h].sent

(* C9 amended: every /fetch request sends at most one response, the 200    *)
(* result or one error and never a second send once one was written, also  *)
(* when page.close() fails; when the handler has finished it has sent      *)
(* exactly one, unless its last res.send call threw (the one of the catch  *)
(* block, or the only one made), in which case it has sent none.           *)
C9_OneResponseUnlessSendThrows ==
  \A h \in Handlers :
    IsFetch(req[h])
    => /\ ~res[h].resend
       /\ res[h].sendCalls <= 2
       /\ res[h].sendCalls = 2 => pc[h] \in {"closeInFinally", "done"}
       /\ res[h].sent => ~res[h].threw
       /\ pc[h] = "done" => (res[h].sendCalls >= 1 /\ (res[h].sent <=> ~res[h].threw))
       /\ res[h].sent
            => \/ res[h].status = 200 /\ res[h].body = resultHtml[h]
                  /\ res[h].body.kind = "remote"
               \/ res[h].status \in {400, 500}
                  /\ res[h].body.kind \in {"text", "proxyError"}

(* A first res.send threw inside the try block and the catch block's error *)
(* response was the one sent.                                              *)
C9_Witness ==
  \E h \in Handlers :
    /\ pc[h] = "done"
    /\ res[h].sendCalls = 2
    /\ res[h].sent
    /\ res[h].status = 500
    /\ res[h].body = ProxyError("send failed")

(* C10: on every exit path taken after the page was created, page.close()  *)
(* is called exactly once for the request's page.                          *)
C10_CloseCalledOnce ==
  \A h \in Handlers :
    (pc[h] = "done" /\ page[h] # 0) => CloseCalls(h) = 1

====
